---------------------------- MODULE Spec2Model ----------------------------
(***************************************************************************)
(* A model of MyInfoGovClient (datagovsg/myinfo-gov-client): the           *)
(* constructor, the request signer _generateAuthHeader, the identity       *)
(* extractor _extractUinFin, the token exchange _getAccessToken, the       *)
(* person request _sendPersonRequest and their orchestration getPerson.    *)
(*                                                                         *)
(* Strings are sequences of one-character strings, so that concatenation,  *)
(* percent-encoding, upper-casing and the comparison of keys by character  *)
(* code are computed and not assumed.  A JavaScript object is the sequence *)
(* of its <<key, value>> entries in the order Object.keys enumerates them. *)
(***************************************************************************)
EXTENDS Integers, Sequences, FiniteSets, TLC

VARIABLES
  client,   \* the MyInfoGovClient instance the calls of Spec run on
  now,      \* the value Date.now() returns, in milliseconds
  rng,      \* how many outputs crypto.randomBytes has produced so far
  calls,    \* the invocations of getPerson / _sendPersonRequest, in call order
  ctor,     \* SpecCtor: the constructor's input and its outcome
  ext,      \* SpecExtract: _extractUinFin's input and its outcome
  sig       \* SpecSign: _generateAuthHeader's input and its outcome

vars == <<client, now, rng, calls, ctor, ext, sig>>

-----------------------------------------------------------------------------
(* Bounds of the model.                                                    *)

MaxCalls == 1      \* calls per behaviour of Spec
MaxConcurrent == 2 \* calls per behaviour of SpecConcurrent
MaxTime == 1       \* the clock runs from 0 to MaxTime
MaxParams == 2     \* entries of a parameter object handed to the signer

-----------------------------------------------------------------------------
(* Characters and strings.                                                 *)

Digit == <<"0", "1", "2", "3", "4", "5", "6", "7", "8", "9">>

Lower ==
  <<"a", "b", "c", "d", "e", "f", "g", "h", "i", "j", "k", "l", "m", "n",
    "o", "p", "q", "r", "s", "t", "u", "v", "w", "x", "y", "z">>

\* The UTF-16 code units of the characters the keys of the model are made
\* of: the digits, the underscore and the lower-case letters.
CodeUnits ==
  [c \in {Digit[i] : i \in 1..10} |->
     47 + (CHOOSE i \in 1..10 : Digit[i] = c)]
  @@ [c \in {"_"} |-> 95]
  @@ [c \in {Lower[i] : i \in 1..26} |->
        96 + (CHOOSE i \in 1..26 : Lower[i] = c)]

CharCode(c) == CodeUnits[c]

IsDigit(c) == c \in {"0", "1", "2", "3", "4", "5", "6", "7", "8", "9"}

DigitVal(c) == CharCode(c) - 48

\* String(n) for a natural number n: its decimal digits.
RECURSIVE DecStr(_)
DecStr(n) == IF n < 10 THEN <<Digit[n + 1]>>
             ELSE DecStr(n \div 10) \o <<Digit[(n % 10) + 1]>>

\* String.prototype.toUpperCase on the letters method names are made of.
UpperChar(c) ==
  CASE c = "g" -> "G" [] c = "e" -> "E" [] c = "t" -> "T"
    [] c = "p" -> "P" [] c = "o" -> "O" [] c = "s" -> "S"
    [] OTHER -> c

toUpperCase(s) == [i \in 1..Len(s) |-> UpperChar(s[i])]

\* s < t in the order Array.prototype.sort gives strings by default: the
\* code units compared position by position, a proper prefix first.
RECURSIVE StrLess(_, _)
StrLess(s, t) ==
  IF t = <<>> THEN FALSE
  ELSE IF s = <<>> THEN TRUE
  ELSE IF CharCode(Head(s)) # CharCode(Head(t))
       THEN CharCode(Head(s)) < CharCode(Head(t))
  ELSE StrLess(Tail(s), Tail(t))

RECURSIVE Concat(_)
Concat(ss) == IF ss = <<>> THEN <<>> ELSE Head(ss) \o Concat(Tail(ss))

\* The characters encodeURIComponent (and qs's default encoder) leave as
\* they are: letters, digits and - _ . ~ (and ! * ' ( ), not used here).
Unreserved(c) ==
  c \notin {":", "/", " ", "&", "=", ",", "+", "?", "#", "%", "@"}

\* The percent-encoding of one character.
EncodeChar(c) ==
  CASE c = ":" -> <<"%", "3", "A">> [] c = "/" -> <<"%", "2", "F">>
    [] c = " " -> <<"%", "2", "0">> [] c = "&" -> <<"%", "2", "6">>
    [] c = "=" -> <<"%", "3", "D">> [] c = "," -> <<"%", "2", "C">>
    [] c = "+" -> <<"%", "2", "B">> [] c = "?" -> <<"%", "3", "F">>
    [] c = "#" -> <<"%", "2", "3">> [] c = "%" -> <<"%", "2", "5">>
    [] c = "@" -> <<"%", "4", "0">>
    [] OTHER -> <<c>>

encodeURIComponent(s) == Concat([i \in 1..Len(s) |-> EncodeChar(s[i])])

-----------------------------------------------------------------------------
(* JavaScript objects with string keys and string values.                  *)

\* A key is an array index when it is the canonical decimal form of an
\* integer below 2^32 - 1; the keys of the model have at most two digits.
IsArrayIndex(k) ==
  /\ k # <<>>
  /\ \A i \in 1..Len(k) : IsDigit(k[i])
  /\ (Len(k) > 1 => k[1] # "0")

RECURSIVE NumVal(_)
NumVal(k) == IF k = <<>> THEN 0
             ELSE 10 * NumVal(SubSeq(k, 1, Len(k) - 1)) + DigitVal(k[Len(k)])

ObjKeys(o) == [i \in 1..Len(o) |-> o[i][1]]

ObjHas(o, k) == \E i \in 1..Len(o) : o[i][1] = k

ObjGet(o, k) == o[CHOOSE i \in 1..Len(o) : o[i][1] = k][2]

\* The number of entries of o that Object.keys lists before a new key k:
\* array indices come first, in ascending numeric order, then the other
\* keys in the order they were added.
InsertAt(o, k) ==
  IF IsArrayIndex(k)
  THEN Cardinality({i \in 1..Len(o) :
                      IsArrayIndex(o[i][1]) /\ NumVal(o[i][1]) < NumVal(k)})
  ELSE Len(o)

\* o[k] = v: an existing key keeps its place, a new one is added.
ObjSet(o, k, v) ==
  IF ObjHas(o, k)
  THEN [i \in 1..Len(o) |-> IF o[i][1] = k THEN <<k, v>> ELSE o[i]]
  ELSE LET n == InsertAt(o, k)
       IN SubSeq(o, 1, n) \o <<<<k, v>>>> \o SubSeq(o, n + 1, Len(o))

\* { ...o, e1, e2, ... }: the entries es assigned in order to a copy of o.
RECURSIVE ObjAssign(_, _)
ObjAssign(o, es) ==
  IF es = <<>> THEN o
  ELSE ObjAssign(ObjSet(o, Head(es)[1], Head(es)[2]), Tail(es))

\* The object literal with the entries es.
ObjLiteral(es) == ObjAssign(<<>>, es)

-----------------------------------------------------------------------------
(* src/util (not among the sources): sortObjKeys, after the specification, *)
(* section 4.1: a new object with the keys of o added in ascending order   *)
(* of their character codes, each with its value in o.                     *)

\* The keys ks with k put before the first key that is not below it.
RECURSIVE InsertSorted(_, _)
InsertSorted(ks, k) ==
  IF ks = <<>> THEN <<k>>
  ELSE IF StrLess(Head(ks), k) THEN <<Head(ks)>> \o InsertSorted(Tail(ks), k)
  ELSE <<k>> \o ks

\* Object.keys(o).sort()
RECURSIVE SortKeys(_)
SortKeys(ks) ==
  IF ks = <<>> THEN <<>> ELSE InsertSorted(SortKeys(Tail(ks)), Head(ks))

sortObjKeys(o) ==
  LET ks == SortKeys(ObjKeys(o))
  IN ObjLiteral([i \in 1..Len(ks) |-> <<ks[i], ObjGet(o, ks[i])>>])

-----------------------------------------------------------------------------
(* qs.stringify on an object of strings: key=value joined by '&', in the   *)
(* order of Object.keys; keys and values percent-encoded unless the option *)
(* encode is false.                                                        *)

RECURSIVE JoinAmp(_)
JoinAmp(ps) ==
  IF ps = <<>> THEN <<>>
  ELSE IF Len(ps) = 1 THEN Head(ps)
  ELSE Head(ps) \o <<"&">> \o JoinAmp(Tail(ps))

QsStringify(o, encode) ==
  JoinAmp([i \in 1..Len(o) |->
             IF encode
             THEN encodeURIComponent(o[i][1]) \o <<"=">>
                    \o encodeURIComponent(o[i][2])
             ELSE o[i][1] \o <<"=">> \o o[i][2]])

-----------------------------------------------------------------------------
(* The string literals of the client.                                      *)

S_grant_type ==
  <<"g", "r", "a", "n", "t", "_", "t", "y", "p", "e">>

S_authorization_code ==
  <<"a", "u", "t", "h", "o", "r", "i", "z", "a", "t", "i", "o", "n", "_",
    "c", "o", "d", "e">>

S_code ==
  <<"c", "o", "d", "e">>

S_redirect_uri ==
  <<"r", "e", "d", "i", "r", "e", "c", "t", "_", "u", "r", "i">>

S_client_id ==
  <<"c", "l", "i", "e", "n", "t", "_", "i", "d">>

S_client_secret ==
  <<"c", "l", "i", "e", "n", "t", "_", "s", "e", "c", "r", "e", "t">>

S_attributes ==
  <<"a", "t", "t", "r", "i", "b", "u", "t", "e", "s">>

S_signature_method ==
  <<"s", "i", "g", "n", "a", "t", "u", "r", "e", "_", "m", "e", "t", "h",
    "o", "d">>

S_RS256 ==
  <<"R", "S", "2", "5", "6">>

S_nonce ==
  <<"n", "o", "n", "c", "e">>

S_timestamp ==
  <<"t", "i", "m", "e", "s", "t", "a", "m", "p">>

S_app_id ==
  <<"a", "p", "p", "_", "i", "d">>

S_GET ==
  <<"G", "E", "T">>

S_POST ==
  <<"P", "O", "S", "T">>

\* enum MyInfoMode
MyInfoMode == [Dev |-> <<"d", "e", "v">>, Staging |-> <<"s", "t", "g">>,
               Production |-> <<"p", "r", "o", "d">>]

\* BASE_URL[mode]; undefined (here the empty string, falsy as well) for a
\* mode that is none of the three.
BASE_URL(mode) ==
  IF mode = MyInfoMode.Dev THEN
    <<"h", "t", "t", "p", ":", "/", "/", "l", "o", "c", "a", "l", "h", "o",
      "s", "t", ":", "5", "1", "5", "6", "/", "m", "y", "i", "n", "f", "o",
      "/", "v", "3">>
  ELSE IF mode = MyInfoMode.Staging THEN
    <<"h", "t", "t", "p", "s", ":", "/", "/", "m", "y", "i", "n", "f", "o",
      "s", "g", "s", "t", "g", ".", "a", "p", "i", ".", "g", "o", "v", ".",
      "s", "g", "/", "g", "o", "v", "/", "t", "e", "s", "t", "/", "v", "3">>
  ELSE IF mode = MyInfoMode.Production THEN
    <<"h", "t", "t", "p", "s", ":", "/", "/", "m", "y", "i", "n", "f", "o",
      "s", "g", ".", "a", "p", "i", ".", "g", "o", "v", ".", "s", "g", "/",
      "g", "o", "v", "/", "v", "3">>
  ELSE <<>>

\* enum Endpoint
Endpoint == [Token |-> <<"/", "t", "o", "k", "e", "n">>,
             Person |-> <<"/", "p", "e", "r", "s", "o", "n">>]

-----------------------------------------------------------------------------
(* The constructor.  A field of the configuration is a JavaScript value:   *)
(* undefined (the field is missing), a string or a Buffer.                 *)

Undefined == [t |-> "undefined", s |-> <<>>]
Str(s) == [t |-> "string", s |-> s]
Buf(s) == [t |-> "buffer", s |-> s]

\* !v: undefined and the empty string are falsy; an object, so a Buffer of
\* any length, is truthy.
Falsy(v) == v.t = "undefined" \/ (v.t = "string" /\ v.s = <<>>)

\* v.toString().replace(/\n$/, '')
TrimNewline(v) ==
  IF v.s # <<>> /\ v.s[Len(v.s)] = "\n" THEN SubSeq(v.s, 1, Len(v.s) - 1)
  ELSE v.s

NoClient ==
  [clientId |-> <<>>, clientSecret |-> <<>>, redirectEndpoint |-> <<>>,
   mode |-> <<>>, singpassEserviceId |-> <<>>, clientPrivateKey |-> <<>>,
   myInfoPublicKey |-> <<>>, baseAPIUrl |-> <<>>]

\* new MyInfoGovClient(config): whether it threw, and the instance if not.
Constructor(config) ==
  IF \/ Falsy(config.clientId)
     \/ Falsy(config.clientSecret)
     \/ Falsy(config.singpassEserviceId)
     \/ Falsy(config.redirectEndpoint)
     \/ Falsy(config.clientPrivateKey)
     \/ Falsy(config.myInfoPublicKey)
  THEN [threw |-> TRUE, self |-> NoClient]
  ELSE LET mode == IF Falsy(config.mode) THEN MyInfoMode.Production
                   ELSE config.mode.s
       IN [threw |-> FALSE,
           self |->
             [clientId |-> config.clientId.s,
              clientSecret |-> config.clientSecret.s,
              redirectEndpoint |-> config.redirectEndpoint.s,
              mode |-> mode,
              singpassEserviceId |-> config.singpassEserviceId.s,
              clientPrivateKey |-> TrimNewline(config.clientPrivateKey),
              myInfoPublicKey |-> TrimNewline(config.myInfoPublicKey),
              baseAPIUrl |-> IF BASE_URL(mode) = <<>>
                             THEN BASE_URL(MyInfoMode.Production)
                             ELSE BASE_URL(mode)]]

-----------------------------------------------------------------------------
(* node's crypto, as the signer uses it.                                   *)

\* crypto.randomBytes(32).toString('base64') for the r-th output of the
\* process's random generator: 44 characters, the last one the padding '='.
\* Two outputs of the generator are taken to differ (256 random bits).
RandomBytesBase64(r) == <<"r">> \o DecStr(r) \o <<"=">>

\* A PEM private key that createSign(...).sign can parse.
WellFormedPrivateKey(k) ==
  /\ k # <<>>
  /\ k[1] = "P"
  /\ \A i \in 2..Len(k) : k[i] = "\n"

\* sign(key, 'base64') throws on a key it cannot parse, and on a fault of
\* the cryptographic library.
SignThrows(key, fault) == ~WellFormedPrivateKey(key) \/ fault

\* createSign('RSA-SHA256').update(baseString).sign(key, 'base64'): the
\* signature is determined by the algorithm, the key and the signed string.
RsaSha256Sign(key, baseString) ==
  [alg |-> "RSA-SHA256", key |-> key, over |-> baseString]

-----------------------------------------------------------------------------
(* _generateAuthHeader                                                     *)

\* The parameters the signature covers: the request's own, the four of the
\* protocol assigned after them, the whole passed through sortObjKeys.
AuthParams(self, urlParams, timestamp, nonce) ==
  sortObjKeys(ObjAssign(urlParams,
                        <<<<S_signature_method, S_RS256>>,
                          <<S_nonce, nonce>>,
                          <<S_timestamp, timestamp>>,
                          <<S_app_id, self.clientId>>>>))

\* BaseString with qs.stringify left to encode, as it does by default.
BaseString_Encoded(method, url, authParams) ==
  toUpperCase(method) \o <<"&">> \o url \o <<"&">>
    \o QsStringify(authParams, TRUE)

BaseString(method, url, authParams) ==
  toUpperCase(method) \o <<"&">> \o url \o <<"&">>
    \o QsStringify(authParams, FALSE)

\* The header, as the pieces the template string concatenates.
AuthHeader(self, timestamp, nonce, signature) ==
  <<"PKI_SIGN timestamp=\"", timestamp, "\",nonce=\"", nonce,
    "\",app_id=\"", self.clientId,
    "\",signature_method=\"RS256\",signature=\"", signature, "\"">>

\* SignedHeader with a failure of the signature caught, and a header
\* without signature returned.
SignedHeader_Unsigned(self, method, url, urlParams, timestamp, nonce, fault) ==
  [threw |-> FALSE,
   value |->
     AuthHeader(self, timestamp, nonce,
                IF SignThrows(self.clientPrivateKey, fault)
                THEN [alg |-> "none", key |-> <<>>, over |-> <<>>]
                ELSE RsaSha256Sign(self.clientPrivateKey,
                                   BaseString(method, url,
                                              AuthParams(self, urlParams,
                                                         timestamp,
                                                         nonce))))]

\* _generateAuthHeader from the line that builds authParams on: it throws
\* where sign does, and returns the header otherwise.
SignedHeader(self, method, url, urlParams, timestamp, nonce, fault) ==
  LET authParams == AuthParams(self, urlParams, timestamp, nonce)
      baseString == BaseString(method, url, authParams)
  IN IF SignThrows(self.clientPrivateKey, fault)
     THEN [threw |-> TRUE, value |-> <<>>]
     ELSE [threw |-> FALSE,
           value |-> AuthHeader(self, timestamp, nonce,
                                RsaSha256Sign(self.clientPrivateKey,
                                              baseString))]

\* generateAuthHeader with the nonce drawn once and kept.
generateAuthHeader_KeptNonce(self, method, url, urlParams, t, r, fault) ==
  SignedHeader(self, method, url, urlParams, DecStr(t), RandomBytesBase64(0),
               fault)

\* _generateAuthHeader(method, url, urlParams) called when Date.now() is t
\* and the random generator gives its r-th output.
generateAuthHeader(self, method, url, urlParams, t, r, fault) ==
  SignedHeader(self, method, url, urlParams, DecStr(t), RandomBytesBase64(r),
               fault)

\* The fields of a header.
HeaderTimestamp(h) == h[2]
HeaderNonce(h) == h[4]
HeaderAppId(h) == h[6]
HeaderSignature(h) == h[8]

-----------------------------------------------------------------------------
(* The client the calls are made on, and the values of the idle variables. *)

GoodConfig ==
  [clientId |-> Str(<<"i", "d">>),
   clientSecret |-> Str(<<"s", "e", "c">>),
   singpassEserviceId |-> Str(<<"e", "s", "v">>),
   redirectEndpoint |-> Str(<<"h", ":", "/", "/", "a", "/", "c", "b">>),
   clientPrivateKey |-> Str(<<"P", "\n">>),
   myInfoPublicKey |-> Buf(<<"M", "\n">>),
   mode |-> Undefined]

\* The same registration with a private key that is no PEM key.
BadKeyConfig == [GoodConfig EXCEPT !.clientPrivateKey = Str(<<"X">>)]

TheClient == Constructor(GoodConfig).self

NoCtor == [pc |-> "idle", config |-> GoodConfig, threw |-> FALSE,
           self |-> NoClient]
NoSig == [pc |-> "idle", method |-> <<>>, url |-> <<>>, entries |-> <<>>,
          urlParams |-> <<>>, authParams |-> <<>>, threw |-> FALSE,
          value |-> <<>>]

-----------------------------------------------------------------------------
(* jsonwebtoken's verify, and _extractUinFin.                              *)

\* A value that may arrive as access_token: undefined, or a string in JWT
\* form, described by the algorithm of its header, the public key its
\* signature verifies under, whether it has expired, whether it parses as a
\* JWT at all, and its payload.  A payload that is a JSON object decodes to
\* an object (an array is one), any other payload to a string.
Num(s) == [t |-> "number", s |-> s]

Payloads ==
  {[shape |-> "object", sub |-> v] :
     v \in {Undefined, Str(<<"S", "1">>), Str(<<"S", "2">>), Num(<<"7">>)}}
  \cup {[shape |-> "array", sub |-> Undefined],
        [shape |-> "string", sub |-> Undefined]}

Jwts ==
  [t : {"jwt"}, alg : {"RS256", "HS256", "none"}, key : {<<"M">>, <<"E">>},
   expired : BOOLEAN, wellformed : BOOLEAN, payload : Payloads]

UndefinedToken ==
  [t |-> "undefined", alg |-> "none", key |-> <<>>, expired |-> FALSE,
   wellformed |-> FALSE, payload |-> [shape |-> "string", sub |-> Undefined]]

\* verify(jwt, publicKey, { algorithms }): the checks of jsonwebtoken in
\* their order; it throws, or returns the decoded payload.
verifyJwt(jwt, publicKey, algorithms) ==
  LET fail(e) == [threw |-> TRUE, error |-> e, decoded |-> jwt.payload]
  IN IF jwt.t = "undefined" THEN fail("JsonWebTokenError: jwt must be provided")
     ELSE IF ~jwt.wellformed THEN fail("JsonWebTokenError: jwt malformed")
     ELSE IF jwt.alg \notin algorithms
          THEN fail("JsonWebTokenError: invalid algorithm")
     ELSE IF jwt.key # publicKey
          THEN fail("JsonWebTokenError: invalid signature")
     ELSE IF jwt.expired THEN fail("TokenExpiredError: jwt expired")
     ELSE [threw |-> FALSE, error |-> "", decoded |-> jwt.payload]

\* typeof decoded
TypeOf(decoded) == IF decoded.shape = "string" THEN "string" ELSE "object"

\* src/util (not among the sources): hasProp(decoded, 'sub'), whether the
\* claim set has a subject field.
hasProp(decoded, prop) ==
  prop = "sub" /\ decoded.shape = "object" /\ decoded.sub.t # "undefined"

\* The claims of the token, given verify and the list of algorithms.
ExtractWith(self, jwt, algorithms) ==
  LET v == verifyJwt(jwt, self.myInfoPublicKey, algorithms)
      fail(e) == [threw |-> TRUE, error |-> e, value |-> <<>>]
  IN IF v.threw THEN fail(v.error)
     ELSE IF TypeOf(v.decoded) # "object"
          THEN fail("Error: JWT returned from MyInfo had unexpected shape")
     ELSE IF hasProp(v.decoded, "sub") /\ v.decoded.sub.t = "string"
          THEN [threw |-> FALSE, error |-> "", value |-> v.decoded.sub.s]
     ELSE fail("Error: JWT returned from MyInfo did not contain UIN/FIN")

\* extractUinFin with the algorithm left to the token's header.
extractUinFin_AnyAlgorithm(self, jwt) ==
  ExtractWith(self, jwt, {"RS256", "HS256"})

\* _extractUinFin(jwt): it throws, or returns the subject.
extractUinFin(self, jwt) == ExtractWith(self, jwt, {"RS256"})

-----------------------------------------------------------------------------
(* SpecExtract: one call of _extractUinFin, on any token.                  *)

NoExt == [pc |-> "idle", jwt |-> UndefinedToken, threw |-> FALSE,
          error |-> "", value |-> <<>>]

InitExtract ==
  /\ client = TheClient
  /\ now = 0
  /\ rng = 0
  /\ calls = <<>>
  /\ ctor = NoCtor
  /\ ext = NoExt
  /\ sig = NoSig

Extract(jwt) ==
  /\ ext.pc = "idle"
  /\ LET e == extractUinFin(client, jwt)
     IN ext' = [pc |-> "done", jwt |-> jwt, threw |-> e.threw,
                error |-> e.error, value |-> e.value]
  /\ UNCHANGED <<client, now, rng, calls, ctor, sig>>

NextExtract ==
  ext.pc = "idle" /\ \E jwt \in Jwts \cup {UndefinedToken} : Extract(jwt)

SpecExtract == InitExtract /\ [][NextExtract]_vars

-----------------------------------------------------------------------------
(* SpecCtor: one construction, on any configuration.                       *)

StringFields == {Undefined, Str(<<>>), Str(<<"x">>)}
KeyFields == {Undefined, Str(<<>>), Str(<<"P">>), Str(<<"P", "\n">>),
              Buf(<<>>), Buf(<<"P", "\n">>)}
ModeFields == {Undefined, Str(<<>>), Str(MyInfoMode.Dev),
               Str(MyInfoMode.Staging), Str(MyInfoMode.Production),
               Str(<<"u", "a", "t">>)}

Configs ==
  [clientId : StringFields, clientSecret : StringFields,
   singpassEserviceId : StringFields, redirectEndpoint : StringFields,
   clientPrivateKey : KeyFields, myInfoPublicKey : KeyFields,
   mode : ModeFields]

InitCtor ==
  /\ client = NoClient
  /\ now = 0
  /\ rng = 0
  /\ calls = <<>>
  /\ ctor = NoCtor
  /\ ext = NoExt
  /\ sig = NoSig

Construct(config) ==
  /\ ctor.pc = "idle"
  /\ LET c == Constructor(config)
     IN ctor' = [pc |-> "done", config |-> config, threw |-> c.threw,
                 self |-> c.self]
  /\ UNCHANGED <<client, now, rng, calls, ext, sig>>

NextCtor == ctor.pc = "idle" /\ \E config \in Configs : Construct(config)

SpecCtor == InitCtor /\ [][NextCtor]_vars

-----------------------------------------------------------------------------
(* SpecSign: one call of _generateAuthHeader, on any method, URL and       *)
(* parameter object.                                                       *)

SignMethods == {S_GET, S_POST, <<"g", "e", "t">>, <<"p", "o", "s", "t">>}
SignUrls == {BASE_URL(MyInfoMode.Dev) \o Endpoint.Token, <<"u", "/", "p">>}
SignKeys == {<<"b">>, <<"a">>, <<"1", "0">>, <<"9">>, S_app_id}
SignValues == {<<"v">>, <<"h", ":", "/", " ">>, <<"a", "&", "b", "=">>}

\* The entries of a parameter object, in the order they are written down.
SignEntries ==
  {es \in UNION {[1..n -> SignKeys \X SignValues] : n \in 0..MaxParams} :
     \A i, j \in 1..Len(es) : i # j => es[i][1] # es[j][1]}

InitSign ==
  /\ client = TheClient
  /\ now \in 0..MaxTime
  /\ rng = 0
  /\ calls = <<>>
  /\ ctor = NoCtor
  /\ ext = NoExt
  /\ \E m \in SignMethods, u \in SignUrls, es \in SignEntries :
       sig = [NoSig EXCEPT !.pc = "ready", !.method = m, !.url = u,
                           !.entries = es, !.urlParams = ObjLiteral(es)]

Sign(fault) ==
  /\ sig.pc = "ready"
  /\ LET h == generateAuthHeader(client, sig.method, sig.url, sig.urlParams,
                                 now, rng, fault)
     IN sig' = [sig EXCEPT
                  !.pc = "done",
                  !.authParams = AuthParams(client, sig.urlParams,
                                            DecStr(now),
                                            RandomBytesBase64(rng)),
                  !.threw = h.threw,
                  !.value = h.value]
  /\ rng' = rng + 1
  /\ UNCHANGED <<client, now, calls, ctor, ext>>

NextSign == sig.pc = "ready" /\ \E fault \in BOOLEAN : Sign(fault)

SpecSign == InitSign /\ [][NextSign]_vars

-----------------------------------------------------------------------------
(* axios, as the client uses it: a request is issued and the promise is    *)
(* settled later, rejected on a transport error or a status outside 2xx,   *)
(* resolved with the response otherwise.                                   *)

NoTokenResponse ==
  [kind |-> "none", body |-> "none", access_token |-> UndefinedToken]

\* The answers to the POST: a transport error, an error status, a body that
\* is null, an object without access_token, an object with one.
TokenResponses(tokens) ==
  {[NoTokenResponse EXCEPT !.kind = "error"],
   [NoTokenResponse EXCEPT !.kind = "status"],
   [NoTokenResponse EXCEPT !.kind = "ok", !.body = "null"],
   [NoTokenResponse EXCEPT !.kind = "ok", !.body = "object"]}
  \cup {[kind |-> "ok", body |-> "object", access_token |-> tok] :
          tok \in tokens}

NoPersonResponse == [kind |-> "none", data |-> "none"]

PersonResponses ==
  {[kind |-> "error", data |-> "none"], [kind |-> "status", data |-> "none"],
   [kind |-> "ok", data |-> "{name:{value:'Tan Ah Kow'}}"]}

AxiosError(resp) ==
  IF resp.kind = "error" THEN "Error: Network Error"
  ELSE "Error: Request failed with status code 500"

SigningError == "Error: sign failed"

\* src/util (not among the sources): objToSearchParams, the entries of the
\* object as the entries of a URLSearchParams, in the object's order.
objToSearchParams(o) == [i \in 1..Len(o) |-> <<o[i][1], o[i][2]>>]

\* Array.prototype.join() of a list of strings: the separator is a comma.
RECURSIVE Join(_)
Join(ss) ==
  IF ss = <<>> THEN <<>>
  ELSE IF Len(ss) = 1 THEN Head(ss)
  ELSE Head(ss) \o <<",">> \o Join(Tail(ss))

-----------------------------------------------------------------------------
(* _getAccessToken                                                         *)

PostParams(self, authCode) ==
  ObjLiteral(<<<<S_grant_type, S_authorization_code>>,
               <<S_code, authCode>>,
               <<S_redirect_uri, self.redirectEndpoint>>,
               <<S_client_id, self.clientId>>,
               <<S_client_secret, self.clientSecret>>>>)

\* The POST with the header h, or none if the signer threw.
PostWith(postUrl, postParams, h, t) ==
  [threw |-> h.threw,
   error |-> IF h.threw THEN SigningError ELSE "",
   sign |-> <<[stage |-> "token", t |-> t, threw |-> h.threw,
               value |-> h.value]>>,
   request |->
     IF h.threw THEN <<>>
     ELSE <<[method |-> S_POST, url |-> postUrl,
             params |-> objToSearchParams(postParams),
             Authorization |-> h.value]>>]

\* getAccessTokenSend with the client secret sent but left out of what is
\* signed.
getAccessTokenSend_SecretUnsigned(self, authCode, t, r, fault) ==
  LET postUrl == self.baseAPIUrl \o Endpoint.Token
      postParams == PostParams(self, authCode)
  IN PostWith(postUrl, postParams,
              generateAuthHeader(self, S_POST, postUrl,
                                 SubSeq(postParams, 1, 4), t, r, fault), t)

\* Up to axios.post: the signer is called on the URL and the parameters of
\* the POST, and if it returns the POST is issued.  sign is what the signer
\* gave back, request what was issued.
getAccessTokenSend(self, authCode, t, r, fault) ==
  LET postUrl == self.baseAPIUrl \o Endpoint.Token
      postParams == PostParams(self, authCode)
  IN PostWith(postUrl, postParams,
              generateAuthHeader(self, S_POST, postUrl, postParams, t, r,
                                 fault), t)

\* .then((response) => response.data.access_token), or the rejection.
getAccessTokenReceive(resp) ==
  IF resp.kind # "ok"
  THEN [threw |-> TRUE, error |-> AxiosError(resp), value |-> UndefinedToken]
  ELSE IF resp.body = "null"
  THEN [threw |-> TRUE,
        error |-> "TypeError: Cannot read property 'access_token' of null",
        value |-> UndefinedToken]
  ELSE [threw |-> FALSE, error |-> "", value |-> resp.access_token]

-----------------------------------------------------------------------------
(* _sendPersonRequest                                                      *)

\* Up to axios.get: uinFin ?? this._extractUinFin(accessToken), the signer,
\* and if both return the GET, whose header is the signer's followed by
\* ",Bearer " and the access token.
sendPersonRequestSend(self, accessToken, requestedAttributes, uinFin, t, r, fault) ==
  LET e == extractUinFin(self, accessToken)
      extractThrew == uinFin.t = "undefined" /\ e.threw
      definedUinFin == IF uinFin.t = "undefined" THEN e.value ELSE uinFin.s
      url == self.baseAPIUrl \o Endpoint.Person \o <<"/">> \o definedUinFin
               \o <<"/">>
      params == ObjLiteral(<<<<S_client_id, self.clientId>>,
                             <<S_attributes, Join(requestedAttributes)>>>>)
      h == generateAuthHeader(self, S_GET, url, params, t, r, fault)
  IN IF extractThrew
     THEN [threw |-> TRUE, error |-> e.error, sign |-> <<>>,
           request |-> <<>>]
     ELSE [threw |-> h.threw,
           error |-> IF h.threw THEN SigningError ELSE "",
           sign |-> <<[stage |-> "person", t |-> t, threw |-> h.threw,
                       value |-> h.value]>>,
           request |->
             IF h.threw THEN <<>>
             ELSE <<[method |-> S_GET, url |-> url, params |-> params,
                     Authorization |->
                       h.value \o <<",Bearer ", accessToken>>]>>]

\* .then((response) => response.data), or the rejection.
sendPersonRequestReceive(resp) ==
  IF resp.kind # "ok"
  THEN [threw |-> TRUE, error |-> AxiosError(resp), value |-> "none"]
  ELSE [threw |-> FALSE, error |-> "", value |-> resp.data]

-----------------------------------------------------------------------------
(* getPerson, and the calls of a behaviour.                                *)

TokenMsg == "The following error occurred while retrieving the access token: "
DecodeMsg ==
  "The following error occurred while decoding the token from MyInfo: "
PersonMsg == "The following error occurred while calling the Person API: "

NoError == [message |-> "", cause |-> ""]
NoResult == [accessToken |-> UndefinedToken, data |-> "none"]

\* An invocation: the operation and its arguments, where it stands (pc),
\* what it holds, and what it has done so far: the stages it went through,
\* the signer's results, the requests issued, the responses received.
NewCall(op, authCode, requestedAttributes, accessToken, uinFinArg) ==
  [op |-> op, pc |-> "running", authCode |-> authCode,
   requestedAttributes |-> requestedAttributes, uinFinArg |-> uinFinArg,
   accessToken |-> accessToken, uinFin |-> Undefined,
   stages |-> <<>>, signs |-> <<>>, http |-> <<>>,
   tokenResp |-> NoTokenResponse, personResp |-> NoPersonResponse,
   result |-> NoResult, error |-> NoError]

Reject(c, message, cause) ==
  [c EXCEPT !.pc = "rejected", !.error = [message |-> message,
                                           cause |-> cause]]

\* getPerson up to its first await: the first stage is started.
getPersonStart(self, authCode, requestedAttributes, t, r, fault) ==
  LET c == NewCall("getPerson", authCode, requestedAttributes,
                   UndefinedToken, Undefined)
      s == getAccessTokenSend(self, authCode, t, r, fault)
      c1 == [c EXCEPT !.stages = <<"token:start">>, !.signs = s.sign,
                      !.http = s.request]
  IN IF s.threw
     THEN Reject([c1 EXCEPT !.stages = @ \o <<"token:fail">>], TokenMsg,
                 s.error)
     ELSE [c1 EXCEPT !.pc = "awaitToken"]

\* The third stage up to its await, on the token and identity obtained.
getPersonFetch(self, c, t, r, fault) ==
  LET p == sendPersonRequestSend(self, c.accessToken, c.requestedAttributes,
                                 c.uinFin, t, r, fault)
      c1 == [c EXCEPT !.stages = @ \o <<"person:start">>,
                      !.signs = @ \o p.sign, !.http = @ \o p.request]
  IN IF p.threw
     THEN Reject([c1 EXCEPT !.stages = @ \o <<"person:fail">>], PersonMsg,
                 p.error)
     ELSE [c1 EXCEPT !.pc = "awaitPerson"]

\* getPersonExtract with the catch of the second stage not throwing: the
\* third stage is started without an identity.
getPersonExtract_Swallow(self, c, t, r, fault) ==
  LET e == extractUinFin(self, c.accessToken)
      c1 == [c EXCEPT !.stages = @ \o <<"extract:start">>]
  IN getPersonFetch(self,
                    IF e.threw
                    THEN [c1 EXCEPT !.stages = @ \o <<"extract:fail">>]
                    ELSE [c1 EXCEPT !.stages = @ \o <<"extract:ok">>,
                                    !.uinFin = Str(e.value)],
                    t, r, fault)

\* The second stage, on the token obtained, and the third if it succeeds.
getPersonExtract(self, c, t, r, fault) ==
  LET e == extractUinFin(self, c.accessToken)
      c1 == [c EXCEPT !.stages = @ \o <<"extract:start">>]
  IN IF e.threw
     THEN Reject([c1 EXCEPT !.stages = @ \o <<"extract:fail">>], DecodeMsg,
                 e.error)
     ELSE getPersonFetch(self,
                         [c1 EXCEPT !.stages = @ \o <<"extract:ok">>,
                                    !.uinFin = Str(e.value)],
                         t, r, fault)

\* getPerson from the settling of the POST to its next await.
getPersonResume(self, c, resp, t, r, fault) ==
  LET a == getAccessTokenReceive(resp)
      c1 == [c EXCEPT !.tokenResp = resp]
  IN IF a.threw
     THEN Reject([c1 EXCEPT !.stages = @ \o <<"token:fail">>], TokenMsg,
                 a.error)
     ELSE getPersonExtract(self,
                           [c1 EXCEPT !.stages = @ \o <<"token:ok">>,
                                      !.accessToken = a.value],
                           t, r, fault)

\* getPerson from the settling of the GET to its end.
getPersonFinish(c, resp) ==
  LET d == sendPersonRequestReceive(resp)
      c1 == [c EXCEPT !.personResp = resp]
  IN IF d.threw
     THEN Reject([c1 EXCEPT !.stages = @ \o <<"person:fail">>], PersonMsg,
                 d.error)
     ELSE [c1 EXCEPT !.pc = "resolved",
                     !.stages = @ \o <<"person:ok">>,
                     !.result = [accessToken |-> c.accessToken,
                                 data |-> d.value]]

\* _sendPersonRequest called on its own, up to its await.
sendPersonRequestStart(self, accessToken, requestedAttributes, uinFin, t, r, fault) ==
  LET c == NewCall("sendPersonRequest", <<>>, requestedAttributes,
                   accessToken, uinFin)
      p == sendPersonRequestSend(self, accessToken, requestedAttributes,
                                 uinFin, t, r, fault)
      c1 == [c EXCEPT !.stages = <<"person:start">>, !.signs = p.sign,
                      !.http = p.request]
  IN IF p.threw
     THEN Reject([c1 EXCEPT !.stages = @ \o <<"person:fail">>], "", p.error)
     ELSE [c1 EXCEPT !.pc = "awaitPerson"]

\* _sendPersonRequest called on its own, from the settling of the GET.
sendPersonRequestFinish(c, resp) ==
  LET d == sendPersonRequestReceive(resp)
      c1 == [c EXCEPT !.personResp = resp]
  IN IF d.threw
     THEN Reject([c1 EXCEPT !.stages = @ \o <<"person:fail">>], "", d.error)
     ELSE [c1 EXCEPT !.pc = "resolved",
                     !.stages = @ \o <<"person:ok">>,
                     !.result = [accessToken |-> UndefinedToken,
                                 data |-> d.value]]

-----------------------------------------------------------------------------
(* Spec: calls of getPerson and of _sendPersonRequest on one client, run   *)
(* concurrently: a call runs from one await to the next in one step, and   *)
(* the steps of different calls interleave.  Time passes between steps.    *)

S_name == <<"n", "a", "m", "e">>
S_email == <<"e", "m", "a", "i", "l">>

AuthCodes == {<<"c", "1">>}
AttributeLists == {<<S_name>>, <<S_name, S_email>>}

GoodToken ==
  [t |-> "jwt", alg |-> "RS256", key |-> <<"M">>, expired |-> FALSE,
   wellformed |-> TRUE,
   payload |-> [shape |-> "object", sub |-> Str(<<"S", "1">>)]]

\* The tokens the token endpoint answers with: a good one, one signed with
\* HS256, one without a subject.
FlowTokens ==
  {GoodToken, [GoodToken EXCEPT !.alg = "HS256"],
   [GoodToken EXCEPT !.payload.sub = Undefined]}

Init ==
  /\ client \in {Constructor(GoodConfig).self, Constructor(BadKeyConfig).self}
  /\ now = 0
  /\ rng = 0
  /\ calls = <<>>
  /\ ctor = NoCtor
  /\ ext = NoExt
  /\ sig = NoSig

\* A millisecond passes.
Tick ==
  /\ now < MaxTime
  /\ now' = now + 1
  /\ UNCHANGED <<client, rng, calls, ctor, ext, sig>>

\* The draws of the random generator a step made: one by each call of the
\* signer.
Draws(before, after) == Len(after.signs) - Len(before.signs)

CallGetPerson(authCode, requestedAttributes, fault) ==
  /\ LET c == getPersonStart(client, authCode, requestedAttributes, now, rng,
                             fault)
     IN /\ calls' = Append(calls, c)
        /\ rng' = rng + Len(c.signs)
  /\ UNCHANGED <<client, now, ctor, ext, sig>>

CallSendPersonRequest(accessToken, requestedAttributes, uinFin, fault) ==
  /\ LET c == sendPersonRequestStart(client, accessToken,
                                     requestedAttributes, uinFin, now, rng,
                                     fault)
     IN /\ calls' = Append(calls, c)
        /\ rng' = rng + Len(c.signs)
  /\ UNCHANGED <<client, now, ctor, ext, sig>>

TokenResponse(i, resp, fault) ==
  /\ calls[i].op = "getPerson"
  /\ calls[i].pc = "awaitToken"
  /\ LET c == getPersonResume(client, calls[i], resp, now, rng, fault)
     IN /\ calls' = [calls EXCEPT ![i] = c]
        /\ rng' = rng + Draws(calls[i], c)
  /\ UNCHANGED <<client, now, ctor, ext, sig>>

PersonResponse(i, resp) ==
  /\ calls[i].pc = "awaitPerson"
  /\ calls' = [calls EXCEPT
                 ![i] = IF calls[i].op = "getPerson"
                        THEN getPersonFinish(calls[i], resp)
                        ELSE sendPersonRequestFinish(calls[i], resp)]
  /\ UNCHANGED <<client, now, rng, ctor, ext, sig>>

\* The arguments of the calls of _sendPersonRequest made on its own.
DirectTokens == {GoodToken, [GoodToken EXCEPT !.payload.sub = Undefined]}
DirectUinFins == {Undefined, Str(<<"S", "2">>)}

Next ==
  \/ Tick
  \/ /\ Len(calls) < MaxCalls
     /\ \E a \in AuthCodes, attrs \in AttributeLists, fault \in BOOLEAN :
          CallGetPerson(a, attrs, fault)
  \/ /\ Len(calls) < MaxCalls
     /\ \E tok \in DirectTokens, attrs \in AttributeLists,
           u \in DirectUinFins, fault \in BOOLEAN :
          CallSendPersonRequest(tok, attrs, u, fault)
  \/ \E i \in 1..Len(calls), resp \in TokenResponses(FlowTokens),
        fault \in BOOLEAN :
       TokenResponse(i, resp, fault)
  \/ \E i \in 1..Len(calls), resp \in PersonResponses :
       PersonResponse(i, resp)

Spec == Init /\ [][Next]_vars

-----------------------------------------------------------------------------
(* SpecConcurrent: getPerson operations running at the same time on one    *)
(* client, against endpoints that answer.                                  *)

InitConcurrent ==
  /\ client = TheClient
  /\ now = 0
  /\ rng = 0
  /\ calls = <<>>
  /\ ctor = NoCtor
  /\ ext = NoExt
  /\ sig = NoSig

NextConcurrent ==
  \/ Tick
  \/ /\ Len(calls) < MaxConcurrent
     /\ \E a \in AuthCodes : CallGetPerson(a, <<S_name>>, FALSE)
  \/ \E i \in 1..Len(calls) :
       TokenResponse(i, [kind |-> "ok", body |-> "object",
                         access_token |-> GoodToken], FALSE)
  \/ \E i \in 1..Len(calls), resp \in PersonResponses :
       PersonResponse(i, resp)

SpecConcurrent == InitConcurrent /\ [][NextConcurrent]_vars

-----------------------------------------------------------------------------
(* Claims about the constructor (SpecCtor).                                *)

RequiredFields == {"clientId", "clientSecret", "singpassEserviceId",
                   "redirectEndpoint", "clientPrivateKey", "myInfoPublicKey"}

\* A field that is missing or holds no characters, as a string or a Buffer.
EmptyOrMissing(v) == v.t = "undefined" \/ v.s = <<>>

\* C5: constructing a client fails if any one of the six required fields is
\* empty or missing, and succeeds whenever all six are non-empty, whatever
\* the mode is.
C5_ConstructionFailsIffAFieldIsEmpty ==
  ctor.pc = "done" =>
    (ctor.threw <=> \E f \in RequiredFields : EmptyOrMissing(ctor.config[f]))

-----------------------------------------------------------------------------
(* Claims about the signer (SpecSign).                                     *)

ProtocolKeys == {S_signature_method, S_nonce, S_timestamp, S_app_id}

\* The parameter set the signature is to cover, as a function of its keys:
\* the request's parameters, and the four protocol parameters over them.
MergedParams(entries, timestamp, nonce, clientId) ==
  [k \in {entries[i][1] : i \in 1..Len(entries)} \cup ProtocolKeys |->
     IF k = S_signature_method THEN S_RS256
     ELSE IF k = S_nonce THEN nonce
     ELSE IF k = S_timestamp THEN timestamp
     ELSE IF k = S_app_id THEN clientId
     ELSE (CHOOSE e \in {entries[i] : i \in 1..Len(entries)} : e[1] = k)[2]]

\* key=value pairs joined by '&', keys and values as they are.
LiteralPairs(ks, f) ==
  JoinAmp([i \in 1..Len(ks) |-> ks[i] \o <<"=">> \o f[ks[i]]])

\* key=value pairs joined by '&', keys and values percent-encoded.
EncodedPairs(ks, f) ==
  JoinAmp([i \in 1..Len(ks) |->
             encodeURIComponent(ks[i]) \o <<"=">>
               \o encodeURIComponent(f[ks[i]])])

Ascending(ks) == \A i, j \in 1..Len(ks) : i < j => StrLess(ks[i], ks[j])

\* The order in which a JavaScript object lists keys that were added in
\* ascending order: array indices by their number, then the others.
ObjectOrder(ks) ==
  \A i, j \in 1..Len(ks) : i < j =>
    IF IsArrayIndex(ks[i]) /\ IsArrayIndex(ks[j])
    THEN NumVal(ks[i]) < NumVal(ks[j])
    ELSE IF IsArrayIndex(ks[i]) THEN TRUE
    ELSE IF IsArrayIndex(ks[j]) THEN FALSE
    ELSE StrLess(ks[i], ks[j])

SigMerged ==
  MergedParams(sig.entries, DecStr(now), HeaderNonce(sig.value),
               client.clientId)

HasReserved(s) == \E i \in 1..Len(s) : ~Unreserved(s[i])

SigCanonInput ==
  ObjAssign(sig.urlParams,
            <<<<S_signature_method, S_RS256>>,
              <<S_nonce, RandomBytesBase64(rng - 1)>>,
              <<S_timestamp, DecStr(now)>>,
              <<S_app_id, client.clientId>>>>)

EntryOrders(o) ==
  {p \in [1..Len(o) -> 1..Len(o)] : \A i, j \in 1..Len(o) : i # j => p[i] # p[j]}

-----------------------------------------------------------------------------
(* Claims about the identity extractor (SpecExtract).                      *)

\* The token is one that verifies: a well-formed, unexpired JWT whose RS256
\* signature is good under the counterparty's public key.
Verifies(jwt, publicKey) ==
  /\ jwt.t = "jwt"
  /\ jwt.wellformed
  /\ jwt.alg = "RS256"
  /\ jwt.key = publicKey
  /\ ~jwt.expired

HasStringSub(payload) == payload.shape = "object" /\ payload.sub.t = "string"

VerificationErrors ==
  {"JsonWebTokenError: jwt must be provided",
   "JsonWebTokenError: jwt malformed",
   "JsonWebTokenError: invalid algorithm",
   "JsonWebTokenError: invalid signature",
   "TokenExpiredError: jwt expired"}

MalformedClaimsErrors ==
  {"Error: JWT returned from MyInfo had unexpected shape",
   "Error: JWT returned from MyInfo did not contain UIN/FIN"}

\* C4: _extractUinFin returns a value only for a token that verifies under
\* RS256 with the counterparty's key and whose claim set is an object with
\* a string sub, and returns that sub; a token that does not verify fails
\* with a verification error whatever its payload; a verified token without
\* a string sub in an object claim set fails with a malformed-claims error,
\* which is no verification error.
C4_ExtractOnlyVerifiedStringSub ==
  ext.pc = "done" =>
    LET ok == Verifies(ext.jwt, client.myInfoPublicKey)
        sub == HasStringSub(ext.jwt.payload)
    IN /\ ~ext.threw <=> (ok /\ sub)
       /\ ~ext.threw => ext.value = ext.jwt.payload.sub.s
       /\ ~ok => ext.error \in VerificationErrors
       /\ (ok /\ ~sub) => ext.error \in MalformedClaimsErrors
       /\ VerificationErrors \cap MalformedClaimsErrors = {}

\* A token signed with HS256 that carries a string sub was refused.
C4_Witness ==
  /\ ext.pc = "done"
  /\ ext.jwt.t = "jwt"
  /\ ext.jwt.alg = "HS256"
  /\ ext.jwt.wellformed
  /\ ~ext.jwt.expired
  /\ ext.jwt.key = client.myInfoPublicKey
  /\ HasStringSub(ext.jwt.payload)
  /\ ext.threw

-----------------------------------------------------------------------------
(* Claims about getPerson and the two requests (Spec).                     *)

Last(s) == s[Len(s)]

Failures == {"token:fail", "extract:fail", "person:fail"}

\* What a call of getPerson may have gone through: the stages in order, a
\* stage started only after the one before it succeeded, nothing after a
\* failure.
StageLogs ==
  {<<"token:start">>,
   <<"token:start", "token:fail">>,
   <<"token:start", "token:ok", "extract:start", "extract:fail">>,
   <<"token:start", "token:ok", "extract:start", "extract:ok",
     "person:start">>,
   <<"token:start", "token:ok", "extract:start", "extract:ok",
     "person:start", "person:fail">>,
   <<"token:start", "token:ok", "extract:start", "extract:ok",
     "person:start", "person:ok">>}

Methods(http) == [k \in 1..Len(http) |-> http[k].method]

\* C1: in getPerson the stages run in the order token exchange, identity
\* extraction, person request; after a failed stage no later stage is
\* started, no request is issued twice and the call is rejected; the call
\* resolves, with the token and the data received, only after all three
\* stages succeeded, the token being one whose identity was verified.
C1_StagesInOrderAbortOnFailure ==
  \A i \in 1..Len(calls) :
    LET c == calls[i]
    IN c.op = "getPerson" =>
         /\ c.stages \in StageLogs
         /\ c.pc = "rejected" <=> Last(c.stages) \in Failures
         /\ c.pc = "resolved" <=> Last(c.stages) = "person:ok"
         /\ c.pc = "awaitToken" <=> Last(c.stages) = "token:start"
         /\ c.pc = "awaitPerson" <=> Last(c.stages) = "person:start"
         /\ Methods(c.http) \in {<<>>, <<S_POST>>, <<S_POST, S_GET>>}
         /\ Len(c.http) = 2 => Len(c.stages) >= 5
         /\ c.pc = "resolved" =>
              /\ c.result.accessToken = c.tokenResp.access_token
              /\ Verifies(c.result.accessToken, client.myInfoPublicKey)
              /\ HasStringSub(c.result.accessToken.payload)
              /\ c.uinFin = c.result.accessToken.payload.sub
              /\ c.personResp.kind = "ok"
              /\ c.result.data = c.personResp.data
              /\ Len(c.http) = 2
         /\ c.pc # "resolved" => c.result = NoResult

\* A call of getPerson was rejected in its second stage, with the POST
\* issued and no GET.
C1_Witness ==
  \E i \in 1..Len(calls) :
    /\ calls[i].op = "getPerson"
    /\ calls[i].pc = "rejected"
    /\ Last(calls[i].stages) = "extract:fail"
    /\ Methods(calls[i].http) = <<S_POST>>

\* The stage a failure of the call originates in: the token exchange if the
\* POST was not issued or its answer is an error, an error status, or a
\* body without access_token; the decoding if the token does not verify or
\* has no string sub; the person request otherwise.
OriginOfFailure(c) ==
  IF \/ c.tokenResp.kind # "ok"
     \/ c.tokenResp.body # "object"
     \/ c.tokenResp.access_token.t = "undefined"
  THEN "token"
  ELSE IF ~(/\ Verifies(c.tokenResp.access_token, client.myInfoPublicKey)
            /\ HasStringSub(c.tokenResp.access_token.payload))
  THEN "decode"
  ELSE "person"

MessageOf(stage) ==
  IF stage = "token" THEN TokenMsg
  ELSE IF stage = "decode" THEN DecodeMsg
  ELSE PersonMsg

\* C2: a failure of getPerson is reported under the message of the stage it
\* originates in, the three messages being pairwise distinct.
C2_FailureReportedUnderItsStage ==
  /\ Cardinality({TokenMsg, DecodeMsg, PersonMsg}) = 3
  /\ \A i \in 1..Len(calls) :
       (calls[i].op = "getPerson" /\ calls[i].pc = "rejected") =>
         calls[i].error.message = MessageOf(OriginOfFailure(calls[i]))

\* C3: the token exchange fails on a transport error, an error status and
\* a body without access_token, and resolves only with the access token of
\* a successful response.
C3_TokenExchangeResolvesOnlyWithToken ==
  \A i \in 1..Len(calls) :
    LET c == calls[i]
    IN (c.op = "getPerson" /\ c.tokenResp.kind # "none") =>
         IF /\ c.tokenResp.kind = "ok"
            /\ c.tokenResp.body = "object"
            /\ c.tokenResp.access_token.t # "undefined"
         THEN /\ c.stages[2] = "token:ok"
              /\ c.accessToken = c.tokenResp.access_token
         ELSE c.stages[2] = "token:fail"

\* The string a request is to be signed over: its method, its URL and its
\* parameters with the four of the protocol, by ascending key.
SignedOver(req, h) ==
  LET f == MergedParams(req.params, HeaderTimestamp(h), HeaderNonce(h),
                        client.clientId)
      ks == SortKeys(ObjKeys(req.params)
                       \o <<S_signature_method, S_nonce, S_timestamp,
                            S_app_id>>)
  IN req.method \o <<"&">> \o req.url \o <<"&">> \o LiteralPairs(ks, f)

Entries(o) == {o[i] : i \in 1..Len(o)}

\* The subject a call asks the person endpoint about.
SubjectOf(c) ==
  IF c.op = "sendPersonRequest" /\ c.uinFinArg.t # "undefined"
  THEN c.uinFinArg.s
  ELSE c.accessToken.payload.sub.s

\* C9: the signature of every request issued covers the method, the URL
\* and the parameters the request is sent with: for the POST, 'POST', the
\* token URL and the five parameters of the body, client_secret among
\* them; for the GET, 'GET', the person URL with the subject as its path
\* segment and the parameters client_id and attributes, the requested
\* attributes joined by commas, the header being the signed header followed
\* by ",Bearer " and the access token.
C9_SignatureCoversWhatIsSent ==
  \A i \in 1..Len(calls) : \A k \in 1..Len(calls[i].http) :
    LET c == calls[i]
        req == c.http[k]
        h == SubSeq(req.Authorization, 1, 9)
    IN /\ HeaderSignature(h).over = SignedOver(req, h)
       /\ HeaderSignature(h).key = client.clientPrivateKey
       /\ HeaderAppId(h) = client.clientId
       /\ IF req.method = S_POST
          THEN /\ req.url = client.baseAPIUrl \o Endpoint.Token
               /\ Entries(req.params) =
                    {<<S_grant_type, S_authorization_code>>,
                     <<S_code, c.authCode>>,
                     <<S_redirect_uri, client.redirectEndpoint>>,
                     <<S_client_id, client.clientId>>,
                     <<S_client_secret, client.clientSecret>>}
               /\ Len(req.params) = 5
               /\ req.Authorization = h
          ELSE /\ req.method = S_GET
               /\ req.url = client.baseAPIUrl \o Endpoint.Person \o <<"/">>
                              \o SubjectOf(c) \o <<"/">>
               /\ Entries(req.params) =
                    {<<S_client_id, client.clientId>>,
                     <<S_attributes, Join(c.requestedAttributes)>>}
               /\ Len(req.params) = 2
               /\ req.Authorization = h \o <<",Bearer ", c.accessToken>>

\* A call of getPerson for two attributes has issued both its requests.
C9_Witness ==
  \E i \in 1..Len(calls) :
    /\ calls[i].op = "getPerson"
    /\ Len(calls[i].requestedAttributes) = 2
    /\ Methods(calls[i].http) = <<S_POST, S_GET>>

StageMethod(stage) == IF stage = "token" THEN S_POST ELSE S_GET

\* C10: when signing fails the signer returns no header, the operation that
\* called it is rejected with the signing error without having issued the
\* request of that stage, and getPerson reports it under the message of
\* that stage; every header the signer returns carries a signature made
\* with the client's key, so a client whose key is no key issues nothing.
C10_SigningFailureIssuesNothing ==
  \A i \in 1..Len(calls) :
    LET c == calls[i]
    IN /\ \A k \in 1..Len(c.signs) :
            IF c.signs[k].threw
            THEN /\ c.signs[k].value = <<>>
                 /\ k = Len(c.signs)
                 /\ c.pc = "rejected"
                 /\ c.error.cause = SigningError
                 /\ \A n \in 1..Len(c.http) :
                      c.http[n].method # StageMethod(c.signs[k].stage)
                 /\ c.op = "getPerson" =>
                      c.error.message =
                        MessageOf(c.signs[k].stage)
            ELSE /\ Len(c.signs[k].value) = 9
                 /\ HeaderSignature(c.signs[k].value).alg = "RSA-SHA256"
                 /\ HeaderSignature(c.signs[k].value).key =
                      client.clientPrivateKey
       /\ ~WellFormedPrivateKey(client.clientPrivateKey) =>
            (c.http = <<>> /\ c.pc = "rejected")

\* With a good key, signing failed in the third stage of getPerson: the
\* POST was issued, the GET was not.
C10_Witness ==
  \E i \in 1..Len(calls) :
    /\ calls[i].op = "getPerson"
    /\ Len(calls[i].signs) = 2
    /\ calls[i].signs[2].threw
    /\ Methods(calls[i].http) = <<S_POST>>
    /\ calls[i].error.message = PersonMsg

-----------------------------------------------------------------------------
(* Claims about the signer under concurrent use (SpecConcurrent).          *)

\* The calls of the signer made so far: the k-th of call i.
Invocations ==
  {p \in (1..Len(calls)) \X (1..2) : p[2] <= Len(calls[p[1]].signs)}

SignOf(p) == calls[p[1]].signs[p[2]]

\* C6 as stated: any two invocations of the signer differ in their nonce
\* and in their timestamp.
C6_NoncesAndTimestampsNeverReused ==
  \A p, q \in Invocations :
    p # q =>
      /\ HeaderNonce(SignOf(p).value) # HeaderNonce(SignOf(q).value)
      /\ HeaderTimestamp(SignOf(p).value) # HeaderTimestamp(SignOf(q).value)

\* C6 (amended): every invocation of the signer draws its own nonce and
\* reads the clock itself: any two invocations have different nonces, and
\* the timestamp of each is the clock's millisecond at the invocation, so
\* that two timestamps differ exactly when the clock moved in between.
C6_OwnNonceAndClockReading ==
  \A p, q \in Invocations :
    /\ HeaderTimestamp(SignOf(p).value) = DecStr(SignOf(p).t)
    /\ p # q =>
         /\ HeaderNonce(SignOf(p).value) # HeaderNonce(SignOf(q).value)
         /\ HeaderTimestamp(SignOf(p).value) = HeaderTimestamp(SignOf(q).value)
              <=> SignOf(p).t = SignOf(q).t

\* Two calls of getPerson in flight at once signed in the same
\* millisecond, and a third invocation signed in another.
C6_Witness ==
  \E p, q, r \in Invocations :
    /\ p[1] # q[1]
    /\ calls[p[1]].pc \in {"awaitToken", "awaitPerson"}
    /\ calls[q[1]].pc \in {"awaitToken", "awaitPerson"}
    /\ SignOf(p).t = SignOf(q).t
    /\ SignOf(r).t # SignOf(p).t

=============================================================================
